---- MODULE Spec2Model ----
(***************************************************************************)
(* Split View Scroller: the content script (Scroll Observer, content.js),  *)
(* the background service worker (Relay Router, background.js) and the     *)
(* popup's settings writes (popup.js), as one state machine.               *)
(*                                                                         *)
(* JavaScript values that may be undefined, a number or a string are       *)
(* modelled as records [k, v] so that === is record equality: a number n   *)
(* is [k |-> "num", v |-> n], the template string `group-${n}` is          *)
(* [k |-> "group-", v |-> n], and undefined is [k |-> "undefined", v |-> 0].*)
(* Scroll offsets and percentages are exact rationals [n, d]; the          *)
(* rounding of IEEE doubles is not modelled.                               *)
(***************************************************************************)
EXTENDS Integers, Sequences, FiniteSets, TLC

\* ------------------------------------------------------------------ bounds
MaxEvents == 2
MaxRelayEvents == 1
MaxUserScrolls == 2
MaxSettingsWrites == 1

\* The tabs (by position), the windows and the identifiers tabs may carry.
Tabs == 1..3
Windows == {1, 2}
SplitViewIds == {1, 2}
GroupIds == {1}

\* --------------------------------------------------------- JavaScript values
Undefined == [k |-> "undefined", v |-> 0]
Num(n) == [k |-> "num", v |-> n]
\* The template literal `${prefix}${x}`: a string made of the prefix and the
\* printed value; printing undefined gives the text "undefined".
Template(prefix, x) ==
    IF x = Undefined THEN [k |-> prefix \o "undefined", v |-> 0]
    ELSE [k |-> prefix, v |-> x.v]

\* ------------------------------------------------------------------ rationals
RECURSIVE Gcd(_, _)
Gcd(a, b) == IF b = 0 THEN a ELSE Gcd(b, a % b)
Abs(x) == IF x < 0 THEN -x ELSE x
Rat(n, d) ==
    LET s == IF d < 0 THEN -1 ELSE 1
        g == Gcd(Abs(n), Abs(d))
    IN  IF n = 0 THEN [n |-> 0, d |-> 1] ELSE [n |-> (s * n) \div g, d |-> (s * d) \div g]
RInt(i) == [n |-> i, d |-> 1]
RMul(a, b) == Rat(a.n * b.n, a.d * b.d)
RDiv(a, b) == Rat(a.n * b.d, a.d * b.n)
RLess(a, b) == a.n * b.d < b.n * a.d

\* ------------------------------------------------------- background.js (pure)
\* getSplitViewId(tab): splitViewId, else `group-${groupId}`, else `pos-${index}`.
\* The template literal cannot throw, so the catch branch (return undefined) is
\* dead: an absent index gives the string "pos-undefined".
getSplitViewId(tab) ==
    IF tab.splitViewId # Undefined THEN tab.splitViewId
    ELSE IF tab.groupId # Undefined THEN Template("group-", tab.groupId)
    ELSE Template("pos-", tab.index)

isInSameSplitViewBothWays(id1, id2) ==
    id1 = Undefined \/ id2 = Undefined \/ id1 = id2

isInSameSplitViewOneSided(id1, id2) ==
    id2 = Undefined \/ id1 = id2

isInSameSplitView(id1, id2) ==
    IF id1 = Undefined /\ id2 = Undefined THEN TRUE
    ELSE IF (id1 = Undefined /\ id2 # Undefined) \/ (id1 # Undefined /\ id2 = Undefined)
         THEN FALSE
    ELSE id1 = id2

\* The settings the background reads: chrome.storage.sync.get with defaults, and
\* the same defaults when the read fails.
DefaultSettings == [enableSync |-> TRUE, syncMode |-> "percentage"]

getSettings(st, failed) ==
    IF failed THEN DefaultSettings
    ELSE [enableSync |-> IF st.enableSync = "unset" THEN TRUE ELSE st.enableSync = "true",
          syncMode |-> IF st.syncMode = "unset" THEN "percentage" ELSE st.syncMode]


\* relayScrollEventToTabs's loop, run from the head of `rest` up to its next
\* await: the sender and the tabs outside its split view are passed over; the
\* result starts with the tab the next chrome.tabs.sendMessage goes to.
RECURSIVE SkipToRecipient(_, _, _, _)
SkipToRecipient(rest, senderId, senderSplitViewId, tabInfo) ==
    IF rest = <<>> THEN <<>>
    ELSE IF Head(rest) = senderId
         THEN SkipToRecipient(Tail(rest), senderId, senderSplitViewId, tabInfo)
    ELSE IF isInSameSplitView(senderSplitViewId, tabInfo[Head(rest)].splitViewId)
         THEN rest
    ELSE SkipToRecipient(Tail(rest), senderId, senderSplitViewId, tabInfo)

\* ----------------------------------------------------------------- state
VARIABLES
    tabs,               \* chrome.tabs: tab id -> [windowId, splitViewId, groupId, index]
    store,              \* chrome.storage.sync: [enableSync, syncMode], "unset" when absent
    handlers,           \* background: one record per SCROLL_EVENT listener invocation
    inbox,              \* per tab: SYNC_SCROLL messages sent and not yet handled
    isSyncing,          \* content: ScrollState.isSyncing
    enableSync,         \* content: ScrollState.enableSync
    syncMode,           \* content: ScrollState.syncMode
    isScrollScheduled,  \* content: ScrollState.isScrollScheduled
    scrollY,            \* page: window.scrollY (rational)
    range,              \* page: scrollHeight - clientHeight
    scrollNotif,        \* page: causes of the native scroll notification not yet dispatched
    schedCause,         \* causes of the notifications behind the scheduled frame callback
    syncTimers,         \* content: setTimeout callbacks of handleSyncScrollMessage pending
    frameCallbacks,     \* content: requestAnimationFrame callbacks pending
    settingsInbox,      \* per tab: SETTINGS_UPDATED messages sent and not yet handled
    settingsLoad,       \* content: the chrome.storage.sync.get of loadSettings
    popup,              \* popup: the save or toggle in progress
    lastTick,           \* what the last run of handleUserScroll did
    userDirty,          \* a user scroll not yet reflected in an emitted SCROLL_EVENT
    nUserScrolls,       \* user scrolls so far (bounded)
    lastSync,           \* what the last run of handleSyncScrollMessage did
    lastSettings,       \* the last settings load or SETTINGS_UPDATED applied by the tab
    coalesced,          \* a notification found the frame callback already scheduled
    nSettingsWrites     \* popup writes so far (bounded)

topoVars == <<tabs, range>>
routerVars == <<handlers, inbox>>
stateVars == <<isSyncing, enableSync, syncMode, isScrollScheduled>>
pageVars == <<scrollY, scrollNotif, schedCause, syncTimers, frameCallbacks>>
popupVars == <<settingsInbox, settingsLoad, popup, nSettingsWrites>>
ghostVars == <<lastTick, userDirty, nUserScrolls, lastSync, lastSettings, coalesced>>
vars == <<tabs, store, handlers, inbox, isSyncing, enableSync, syncMode,
          isScrollScheduled, scrollY, range, scrollNotif, schedCause, syncTimers, frameCallbacks,
          settingsInbox, settingsLoad, popup, lastTick, userDirty, nUserScrolls,
          nSettingsWrites, lastSync, lastSettings, coalesced>>

\* ------------------------------------------------------- background.js (steps)
\* chrome.tabs.query({ windowId }): the ids of the window's tabs, in tab order.
RECURSIVE TabsFrom(_, _, _)
TabsFrom(i, windowId, tabInfo) ==
    IF i \notin Tabs THEN <<>>
    ELSE IF tabInfo[i].windowId = windowId
         THEN <<i>> \o TabsFrom(i + 1, windowId, tabInfo)
    ELSE TabsFrom(i + 1, windowId, tabInfo)

tabsQueryAllWindows(windowId, tabInfo) == [i \in Tabs |-> i]

tabsQuery(windowId, tabInfo) == TabsFrom(1, windowId, tabInfo)

\* The tabs the loop of relayScrollEventToTabs calls chrome.tabs.sendMessage
\* for when it runs from the head of `rest` to the end (lines 250-269).
RECURSIVE LoopTargets(_, _, _, _)
LoopTargets(rest, senderId, senderSplitViewId, tabInfo) ==
    LET next == SkipToRecipient(rest, senderId, senderSplitViewId, tabInfo)
    IN  IF next = <<>> THEN {}
        ELSE {Head(next)} \cup LoopTargets(Tail(next), senderId, senderSplitViewId, tabInfo)

\* The tabs a SCROLL_EVENT of tab senderId is forwarded to when sync is enabled
\* and the tab query succeeds (lines 184-187 and 244-256).
RelayTargets(senderId, tabInfo) ==
    LoopTargets(tabsQuery(tabInfo[senderId].windowId, tabInfo), senderId,
                getSplitViewId(tabInfo[senderId]), tabInfo)

\* handleScrollEvent line 181: `if (!settings.enableSync) return;`
SyncDisabledIgnored(settings) == FALSE

SyncDisabled(settings) == ~settings.enableSync

\* The catch inside the loop (lines 265-267): the failed recipient is dropped
\* and the loop goes on with the tabs after it.
OnSendErrorAbort(rest) == <<>>

OnSendError(rest) == Tail(rest)

\* The listener invocation for one SCROLL_EVENT, suspended at `await getSettings()`.
NewHandler(t, payload) ==
    [sender |-> t, payload |-> payload, pc |-> "getSettings",
     settings |-> DefaultSettings, senderSplitViewId |-> Undefined,
     rest |-> <<>>, delivered |-> FALSE, log |-> <<>>,
     readFailed |-> FALSE, writesSeen |-> 0, afterBroadcast |-> FALSE]

SyncScrollMessage(h, hd) ==
    [ev |-> h, percentage |-> hd.payload.percentage, pixel |-> hd.payload.pixel,
     syncMode |-> hd.settings.syncMode]

\* The loop of relayScrollEventToTabs from `rest0` to its next suspension: either
\* no recipient is left and the handler returns, or chrome.tabs.sendMessage is
\* called for the next recipient (the message reaches the tab's content script,
\* or the call will reject: no listener, tab closed or navigating).
RunLoop(h, hd, rest0) ==
    LET rest == SkipToRecipient(rest0, hd.sender, hd.senderSplitViewId, tabs)
    IN  IF rest = <<>>
        THEN /\ handlers' = [handlers EXCEPT ![h] = [hd EXCEPT !.pc = "done", !.rest = <<>>]]
             /\ UNCHANGED inbox
        ELSE \E ok \in BOOLEAN :
             /\ handlers' = [handlers EXCEPT ![h] =
                                [hd EXCEPT !.pc = "send", !.rest = rest, !.delivered = ok]]
             /\ inbox' = IF ok
                         THEN [inbox EXCEPT ![Head(rest)] = Append(@, SyncScrollMessage(h, hd))]
                         ELSE inbox

\* The popup has written settings and has told every tab.
BroadcastDone == nSettingsWrites > 0 /\ popup.pc = "idle"

\* `await getSettings()` settles (lines 178-187); `failed`: the storage read threw.
RouterGetSettings(h, failed) ==
    /\ handlers[h].pc = "getSettings"
    /\ LET settings == getSettings(store, failed)
       IN  handlers' = [handlers EXCEPT ![h] =
             IF SyncDisabled(settings)
             THEN [@ EXCEPT !.pc = "dropped", !.settings = settings,
                            !.readFailed = failed, !.writesSeen = nSettingsWrites,
                            !.afterBroadcast = BroadcastDone]
             ELSE [@ EXCEPT !.pc = "query", !.settings = settings,
                            !.readFailed = failed, !.writesSeen = nSettingsWrites,
                            !.afterBroadcast = BroadcastDone,
                            !.senderSplitViewId = getSplitViewId(tabs[handlers[h].sender])]]
    /\ UNCHANGED <<tabs, range, store, inbox, stateVars, pageVars, popupVars, ghostVars>>

\* `await chrome.tabs.query(...)` settles (lines 247-252); a rejection is caught
\* by the outer catch and ends the relay silently.
RouterTabsQueried(h) ==
    /\ handlers[h].pc = "query"
    /\ \/ /\ handlers' = [handlers EXCEPT ![h].pc = "failed"]
          /\ UNCHANGED inbox
       \/ RunLoop(h, handlers[h], tabsQuery(tabs[handlers[h].sender].windowId, tabs))
    /\ UNCHANGED <<tabs, range, store, stateVars, pageVars, popupVars, ghostVars>>

\* The message of the pending chrome.tabs.sendMessage has been handled by the
\* recipient's listener (it is no longer in the recipient's inbox).
Handled(h) ==
    \A i \in DOMAIN inbox[Head(handlers[h].rest)] :
        inbox[Head(handlers[h].rest)][i].ev # h

\* `await chrome.tabs.sendMessage(...)` settles (lines 256-269): it resolves once
\* the recipient's listener has run, or rejects; the loop then goes on.
RouterSendSettled(h) ==
    /\ handlers[h].pc = "send"
    /\ handlers[h].delivered => Handled(h)
    /\ LET hd == handlers[h]
           logged == [hd EXCEPT !.log = Append(@, [to |-> Head(hd.rest), ok |-> hd.delivered])]
       IN  RunLoop(h, logged, IF hd.delivered THEN Tail(hd.rest) ELSE OnSendError(hd.rest))
    /\ UNCHANGED <<tabs, range, store, stateVars, pageVars, popupVars, ghostVars>>

\* ---------------------------------------------------------- content.js (pure)
\* calculateScrollMetrics returns null when the page has no scroll.
HasScrollAlways(r) == TRUE

HasScroll(r) == r > 0

calculateScrollMetricsUndivided(y, r) == [percentage |-> y, pixel |-> y]

calculateScrollMetrics(y, r) ==
    [percentage |-> RDiv(y, RInt(r)), pixel |-> y]

\* handleUserScroll line 70: `if (!ScrollState.enableSync || ScrollState.isSyncing)`.
EmissionSuppressedSyncOffOnly(enabled, syncing) == ~enabled

EmissionSuppressed(enabled, syncing) == ~enabled \/ syncing

\* calculateTargetScrollPosition: `message.payload.syncMode || ScrollState.syncMode`.
calculateTargetScrollPositionPixelOnly(msg, localMode, r) == msg.pixel

calculateTargetScrollPositionLocalFirst(msg, localMode, r) ==
    IF localMode = "percentage" THEN RMul(msg.percentage, RInt(r)) ELSE msg.pixel

calculateTargetScrollPositionPercentageOnly(msg, localMode, r) ==
    RMul(msg.percentage, RInt(r))

calculateTargetScrollPosition(msg, localMode, r) ==
    LET currentSyncMode == IF msg.syncMode = "unset" THEN localMode ELSE msg.syncMode
    IN  IF currentSyncMode = "percentage"
        THEN RMul(msg.percentage, RInt(r))
        ELSE msg.pixel

\* window.scrollTo: the browser clamps the offset to the page's scroll limits.
ClampToPage(y, r) ==
    IF RLess(y, RInt(0)) \/ r <= 0 THEN RInt(0)
    ELSE IF RLess(RInt(r), y) THEN RInt(r)
    ELSE y

\* ---------------------------------------------------------- content.js (steps)
NoTick == [outcome |-> "none", wasSyncing |-> FALSE, cause |-> {}]

\* The user scrolls the page of tab t vertically, to offset y.
UserScroll(t, y) ==
    /\ nUserScrolls < MaxUserScrolls
    /\ HasScroll(range[t])
    /\ y <= range[t]
    /\ RInt(y) # scrollY[t]
    /\ scrollY' = [scrollY EXCEPT ![t] = RInt(y)]
    /\ scrollNotif' = [scrollNotif EXCEPT ![t] = @ \cup {"user"}]
    /\ userDirty' = [userDirty EXCEPT ![t] = TRUE]
    /\ nUserScrolls' = nUserScrolls + 1
    /\ UNCHANGED <<tabs, range, store, routerVars, stateVars, schedCause, syncTimers,
                   frameCallbacks, popupVars, lastTick, lastSync, lastSettings, coalesced>>

\* A scroll notification that leaves the vertical offset of tab t as it is: the
\* page is scrolled sideways, or it has no vertical range to scroll.
ScrollNotification(t) ==
    /\ nUserScrolls < MaxUserScrolls
    /\ nUserScrolls' = nUserScrolls + 1
    /\ scrollNotif' = [scrollNotif EXCEPT ![t] = @ \cup {"user"}]
    /\ UNCHANGED <<tabs, range, store, routerVars, stateVars, scrollY, schedCause, syncTimers,
                   frameCallbacks, popupVars, lastTick, userDirty, lastSync, lastSettings,
                   coalesced>>

\* The 'scroll' listener, line 57: `if (!ScrollState.isScrollScheduled)`.
MayScheduleAlways(scheduled) == TRUE

MaySchedule(scheduled) == ~scheduled

\* The 'scroll' listener (lines 56-61) runs for the pending native notification.
OnNativeScroll(t) ==
    /\ scrollNotif[t] # {}
    /\ scrollNotif' = [scrollNotif EXCEPT ![t] = {}]
    /\ schedCause' = [schedCause EXCEPT ![t] = @ \cup scrollNotif[t]]
    /\ IF MaySchedule(isScrollScheduled[t])
       THEN /\ isScrollScheduled' = [isScrollScheduled EXCEPT ![t] = TRUE]
            /\ frameCallbacks' = [frameCallbacks EXCEPT ![t] = @ + 1]
            /\ UNCHANGED coalesced
       ELSE /\ coalesced' = [coalesced EXCEPT ![t] = TRUE]
            /\ UNCHANGED <<isScrollScheduled, frameCallbacks>>
    /\ UNCHANGED <<tabs, range, store, routerVars, isSyncing, enableSync, syncMode,
                   scrollY, syncTimers, popupVars, lastTick, userDirty, nUserScrolls,
                   lastSync, lastSettings>>

\* sendScrollEvent's `.catch(() => {})` (lines 110-115): a rejected send leaves
\* everything as it is (the comment there only considers setting a flag).
OnSendRejectedStopsSync(enabled) == FALSE

OnSendRejected(enabled) == enabled

\* The animation-frame callback handleUserScroll (lines 68-88).  sendScrollEvent
\* either reaches the background's listener or is rejected, which is swallowed.
HandleUserScroll(t) ==
    /\ frameCallbacks[t] > 0
    /\ frameCallbacks' = [frameCallbacks EXCEPT ![t] = @ - 1]
    /\ isScrollScheduled' = [isScrollScheduled EXCEPT ![t] = FALSE]
    /\ schedCause' = [schedCause EXCEPT ![t] = {}]
    /\ coalesced' = [coalesced EXCEPT ![t] = FALSE]
    /\ IF EmissionSuppressed(enableSync[t], isSyncing[t])
       THEN /\ lastTick' = [lastTick EXCEPT ![t] =
                   [outcome |-> "suppressed", wasSyncing |-> isSyncing[t],
                    cause |-> schedCause[t]]]
            /\ UNCHANGED <<handlers, userDirty, enableSync>>
       ELSE IF ~HasScroll(range[t])
       THEN /\ lastTick' = [lastTick EXCEPT ![t] =
                   [outcome |-> "noscroll", wasSyncing |-> isSyncing[t],
                    cause |-> schedCause[t]]]
            /\ UNCHANGED <<handlers, userDirty, enableSync>>
       ELSE /\ lastTick' = [lastTick EXCEPT ![t] =
                   [outcome |-> "sent", wasSyncing |-> isSyncing[t],
                    cause |-> schedCause[t]]]
            /\ userDirty' = [userDirty EXCEPT ![t] = FALSE]
            /\ \/ /\ Len(handlers) < MaxEvents
                  /\ handlers' = Append(handlers,
                        NewHandler(t, calculateScrollMetrics(scrollY[t], range[t])))
                  /\ UNCHANGED enableSync
               \/ /\ enableSync' = [enableSync EXCEPT ![t] = OnSendRejected(@)]
                  /\ UNCHANGED handlers
    /\ UNCHANGED <<tabs, range, store, inbox, isSyncing, syncMode,
                   scrollY, scrollNotif, syncTimers, popupVars, nUserScrolls,
                   lastSync, lastSettings>>

\* handleUserScroll when chrome.runtime.sendMessage throws at the call (the
\* extension was reloaded and the content script's context is invalidated): the
\* exception leaves handleUserScroll at line 85, before line 87.
HandleUserScrollThrows(t) ==
    /\ frameCallbacks[t] > 0
    /\ ~EmissionSuppressed(enableSync[t], isSyncing[t])
    /\ HasScroll(range[t])
    /\ frameCallbacks' = [frameCallbacks EXCEPT ![t] = @ - 1]
    /\ schedCause' = [schedCause EXCEPT ![t] = {}]
    /\ coalesced' = [coalesced EXCEPT ![t] = FALSE]
    /\ lastTick' = [lastTick EXCEPT ![t] =
           [outcome |-> "threw", wasSyncing |-> isSyncing[t], cause |-> schedCause[t]]]
    /\ UNCHANGED <<tabs, range, store, routerVars, stateVars, scrollY, scrollNotif,
                   syncTimers, popupVars, userDirty, nUserScrolls, lastSync, lastSettings>>

\* handleSyncScrollMessage line 134: `if (!ScrollState.enableSync) return;`
SyncIgnoredNever(enabled) == FALSE

SyncIgnored(enabled) == ~enabled

\* A SYNC_SCROLL payload with nothing in it.
NoCommand == [ev |-> 0, percentage |-> RInt(0), pixel |-> RInt(0), syncMode |-> "unset"]

NoSync == [st |-> "none", ev |-> 0, target |-> RInt(0), msg |-> NoCommand,
           local |-> "percentage"]

\* handleSyncScrollMessage (lines 132-154) for the oldest SYNC_SCROLL in the inbox.
HandleSyncScrollMessage(t) ==
    /\ inbox[t] # <<>>
    /\ inbox' = [inbox EXCEPT ![t] = Tail(@)]
    /\ IF SyncIgnored(enableSync[t])
       THEN /\ lastSync' = [lastSync EXCEPT ![t] =
                   [st |-> "ignored", ev |-> Head(inbox[t]).ev, target |-> RInt(0),
                    msg |-> Head(inbox[t]), local |-> syncMode[t]]]
            /\ UNCHANGED <<isSyncing, scrollY, scrollNotif, syncTimers>>
       ELSE LET targetPixel == calculateTargetScrollPosition(Head(inbox[t]), syncMode[t], range[t])
                landed == ClampToPage(targetPixel, range[t])
            IN  /\ lastSync' = [lastSync EXCEPT ![t] =
                       [st |-> "applied", ev |-> Head(inbox[t]).ev, target |-> targetPixel,
                        msg |-> Head(inbox[t]), local |-> syncMode[t]]]
                /\ isSyncing' = [isSyncing EXCEPT ![t] = TRUE]
                /\ scrollY' = [scrollY EXCEPT ![t] = landed]
                /\ scrollNotif' = [scrollNotif EXCEPT ![t] =
                        IF landed # scrollY[t] THEN @ \cup {"sync"} ELSE @]
                /\ syncTimers' = [syncTimers EXCEPT ![t] = @ + 1]
    /\ UNCHANGED <<tabs, range, store, handlers, enableSync, syncMode, isScrollScheduled,
                   schedCause, frameCallbacks, popupVars, lastTick, userDirty, nUserScrolls,
                   lastSettings, coalesced>>

\* A timeout that would run out without clearing the flag.
SyncTimeoutKeepsFlag(t) ==
    /\ syncTimers[t] > 0
    /\ syncTimers' = [syncTimers EXCEPT ![t] = @ - 1]
    /\ UNCHANGED <<tabs, range, store, routerVars, stateVars,
                   scrollY, scrollNotif, schedCause, frameCallbacks, popupVars, ghostVars>>

\* A setTimeout callback of handleSyncScrollMessage fires (lines 151-153).
SyncTimeout(t) ==
    /\ syncTimers[t] > 0
    /\ syncTimers' = [syncTimers EXCEPT ![t] = @ - 1]
    /\ isSyncing' = [isSyncing EXCEPT ![t] = FALSE]
    /\ UNCHANGED <<tabs, range, store, routerVars, enableSync, syncMode, isScrollScheduled,
                   scrollY, scrollNotif, schedCause, frameCallbacks, popupVars, ghostVars>>

\* handleSettingsUpdateMessage (lines 172-180): only the fields present are applied.
ApplySyncModeOverwrite(current, payload) == payload.syncMode

ApplyEnableSync(current, payload) ==
    IF payload.enableSync # "unset" THEN payload.enableSync = "true" ELSE current

ApplySyncMode(current, payload) ==
    IF payload.syncMode # "unset" THEN payload.syncMode ELSE current

\* What a settings load or update found on the tab and what it was given.
SettingsEvent(st, payload, t) ==
    [st |-> st, payload |-> payload,
     before |-> [enableSync |-> enableSync[t], syncMode |-> syncMode[t]]]

NoSettingsEvent ==
    [st |-> "none", payload |-> [enableSync |-> "unset", syncMode |-> "unset"],
     before |-> [enableSync |-> TRUE, syncMode |-> "percentage"]]

HandleSettingsUpdateMessage(t) ==
    /\ settingsInbox[t] # <<>>
    /\ settingsInbox' = [settingsInbox EXCEPT ![t] = Tail(@)]
    /\ enableSync' = [enableSync EXCEPT ![t] = ApplyEnableSync(@, Head(settingsInbox[t]))]
    /\ syncMode' = [syncMode EXCEPT ![t] = ApplySyncMode(@, Head(settingsInbox[t]))]
    /\ lastSettings' = [lastSettings EXCEPT ![t] =
            SettingsEvent("updated", Head(settingsInbox[t]), t)]
    /\ UNCHANGED <<tabs, range, store, routerVars, isSyncing, isScrollScheduled, pageVars,
                   settingsLoad, popup, nSettingsWrites, lastTick, userDirty, nUserScrolls,
                   lastSync, coalesced>>

\* The callback of loadSettings, lines 40-41:
\* `result.enableSync !== undefined ? result.enableSync : true` and
\* `result.syncMode || 'percentage'`.
LoadedEnableSyncStrict(saved) == saved = "true"

LoadedEnableSync(saved) == IF saved # "unset" THEN saved = "true" ELSE TRUE

LoadedSyncMode(saved) == IF saved # "unset" THEN saved ELSE "percentage"

\* loadSettings (lines 33-51): chrome.storage.sync.get reads the store, or fails.
LoadSettingsRead(t) ==
    /\ settingsLoad[t].st = "pending"
    /\ \E failed \in BOOLEAN :
         settingsLoad' = [settingsLoad EXCEPT ![t] =
            IF failed THEN [st |-> "failed", enableSync |-> "unset", syncMode |-> "unset"]
            ELSE [st |-> "read", enableSync |-> store.enableSync, syncMode |-> store.syncMode]]
    /\ UNCHANGED <<tabs, range, store, routerVars, stateVars, pageVars, settingsInbox,
                   popup, nSettingsWrites, ghostVars>>

\* The callback of loadSettings (lines 38-47): the result, with defaults for what
\* is absent; a failed read throws on `result.enableSync` and the catch sets the
\* defaults.
LoadSettingsCallback(t) ==
    /\ settingsLoad[t].st \in {"read", "failed"}
    /\ settingsLoad' = [settingsLoad EXCEPT ![t] =
                           [st |-> "done", enableSync |-> "unset", syncMode |-> "unset"]]
    /\ enableSync' = [enableSync EXCEPT ![t] = LoadedEnableSync(settingsLoad[t].enableSync)]
    /\ syncMode' = [syncMode EXCEPT ![t] = LoadedSyncMode(settingsLoad[t].syncMode)]
    /\ lastSettings' = [lastSettings EXCEPT ![t] =
            SettingsEvent(IF settingsLoad[t].st = "failed" THEN "loadFailed" ELSE "loaded",
                          [enableSync |-> settingsLoad[t].enableSync,
                           syncMode |-> settingsLoad[t].syncMode], t)]
    /\ UNCHANGED <<tabs, range, store, routerVars, isSyncing, isScrollScheduled, pageVars,
                   settingsInbox, popup, nSettingsWrites, lastTick, userDirty, nUserScrolls,
                   lastSync, coalesced>>

\* ------------------------------------------------------------ popup.js (steps)
IdlePopup == [pc |-> "idle", payload |-> [enableSync |-> "unset", syncMode |-> "unset"],
              rest |-> <<>>]

AllInboxesHandled == \A t \in Tabs : settingsInbox[t] = <<>>

\* saveSettings (lines 99-127) up to the end of `await chrome.tabs.query({})`:
\* both fields are written, then told to every tab.
PopupSaveSettings(mode, enable) ==
    /\ popup.pc = "idle"
    /\ nSettingsWrites < MaxSettingsWrites
    /\ nSettingsWrites' = nSettingsWrites + 1
    /\ store' = [enableSync |-> enable, syncMode |-> mode]
    /\ popup' = [pc |-> "telling", payload |-> [enableSync |-> enable, syncMode |-> mode],
                 rest |-> [i \in Tabs |-> i]]
    /\ UNCHANGED <<tabs, range, routerVars, stateVars, pageVars, settingsInbox,
                   settingsLoad, ghostVars>>

\* updateSyncStatus (lines 146-162): only enableSync is written and told.
PopupUpdateSyncStatus(enable) ==
    /\ popup.pc = "idle"
    /\ nSettingsWrites < MaxSettingsWrites
    /\ nSettingsWrites' = nSettingsWrites + 1
    /\ store' = [store EXCEPT !.enableSync = enable]
    /\ popup' = [pc |-> "telling", payload |-> [enableSync |-> enable, syncMode |-> "unset"],
                 rest |-> [i \in Tabs |-> i]]
    /\ UNCHANGED <<tabs, range, routerVars, stateVars, pageVars, settingsInbox,
                   settingsLoad, ghostVars>>

\* The loop over the tabs (lines 118-127, 153-162): the next SETTINGS_UPDATED is
\* sent once the previous send has settled; a failed send is ignored.
PopupTellNextTab ==
    /\ popup.pc = "telling"
    /\ AllInboxesHandled
    /\ IF popup.rest = <<>>
       THEN /\ popup' = IdlePopup
            /\ UNCHANGED settingsInbox
       ELSE /\ popup' = [popup EXCEPT !.rest = Tail(@)]
            /\ \E ok \in BOOLEAN :
                 settingsInbox' = IF ok
                     THEN [settingsInbox EXCEPT ![Head(popup.rest)] = Append(@, popup.payload)]
                     ELSE settingsInbox
    /\ UNCHANGED <<tabs, range, store, routerVars, stateVars, pageVars, settingsLoad,
                   nSettingsWrites, ghostVars>>

\* ------------------------------------------------------------ specifications
ScrollOffsets == 0..2
SyncModes == {"percentage", "pixel"}
\* What chrome.tabs can report of the tab at position t: a browser that reports
\* splitViewId also reports groupId, and one that reports groupId also reports
\* index (the order in which the API gained the fields); getSplitViewId reads a
\* later field only when the earlier ones are undefined.
TabInfos(t) ==
    {i \in [windowId : Windows,
            splitViewId : {Undefined} \cup {Num(n) : n \in SplitViewIds},
            groupId : {Undefined} \cup {Num(n) : n \in GroupIds},
            index : {Undefined, Num(t - 1)}] :
        /\ i.splitViewId # Undefined => i.groupId # Undefined
        /\ i.groupId # Undefined => i.index # Undefined}
StoreValues ==
    [enableSync : {"unset", "true", "false"}, syncMode : {"unset"} \cup SyncModes]

\* The content scripts and the background with nothing in flight, but for the
\* SYNC_SCROLLs on their way to the tabs.
QuiescentTabs ==
    /\ isSyncing = [t \in Tabs |-> FALSE]
    /\ isScrollScheduled = [t \in Tabs |-> FALSE]
    /\ scrollY = [t \in Tabs |-> RInt(0)]
    /\ scrollNotif = [t \in Tabs |-> {}]
    /\ schedCause = [t \in Tabs |-> {}]
    /\ syncTimers = [t \in Tabs |-> 0]
    /\ frameCallbacks = [t \in Tabs |-> 0]
    /\ settingsInbox = [t \in Tabs |-> <<>>]
    /\ lastTick = [t \in Tabs |-> NoTick]
    /\ userDirty = [t \in Tabs |-> FALSE]
    /\ lastSync = [t \in Tabs |-> NoSync]
    /\ lastSettings = [t \in Tabs |-> NoSettingsEvent]
    /\ coalesced = [t \in Tabs |-> FALSE]
    /\ nUserScrolls = 0
    /\ nSettingsWrites = 0
    /\ popup = IdlePopup
    /\ handlers = <<>>

\* The content scripts and the background with nothing in flight.
Quiescent ==
    /\ QuiescentTabs
    /\ inbox = [t \in Tabs |-> <<>>]

\* Every content script has loaded the saved settings (loadSettings has run to
\* the end of its callback).
SettingsLoaded(saved) ==
    /\ store \in saved
    /\ enableSync = [t \in Tabs |-> LoadedEnableSync(store.enableSync)]
    /\ syncMode = [t \in Tabs |-> LoadedSyncMode(store.syncMode)]
    /\ settingsLoad = [t \in Tabs |->
                         [st |-> "done", enableSync |-> "unset", syncMode |-> "unset"]]

\* The scroll relay: tabs 1 and 2 share a split view and differ in page length,
\* tab 3 is in another split view and its page has no vertical scroll.  The
\* storage reads of the background succeed here; RouterSpec has them fail too.
\* The store is as installed (defaults apply), or saved as pixel mode, or
\* switched off by the toggle.
PageRange(t) == IF t = 1 THEN 1 ELSE IF t = 2 THEN 2 ELSE 0
SavedSettings ==
    {[enableSync |-> "unset", syncMode |-> "unset"],
     [enableSync |-> "true", syncMode |-> "pixel"],
     [enableSync |-> "false", syncMode |-> "unset"]}

Init ==
    /\ Quiescent
    /\ SettingsLoaded(SavedSettings)
    /\ tabs = [t \in Tabs |->
                 [windowId |-> 1, splitViewId |-> Num(IF t <= 2 THEN 1 ELSE 2),
                  groupId |-> Num(1), index |-> Num(t - 1)]]
    /\ range = [t \in Tabs |-> PageRange(t)]

Next ==
    \/ \E t \in Tabs, y \in ScrollOffsets : UserScroll(t, y)
    \/ \E t \in Tabs : OnNativeScroll(t)
    \/ \E t \in Tabs : HandleUserScroll(t)
    \/ \E t \in Tabs : HandleSyncScrollMessage(t)
    \/ \E t \in Tabs : SyncTimeout(t)
    \/ \E h \in DOMAIN handlers : RouterGetSettings(h, FALSE)
    \/ \E h \in DOMAIN handlers : RouterTabsQueried(h)
    \/ \E h \in DOMAIN handlers : RouterSendSettled(h)

Spec == Init /\ [][Next]_vars

\* The background alone, for any placement of the tabs and any saved settings:
\* SCROLL_EVENT messages arrive from content scripts that started long ago.
ScrollEventArrives(t, y) ==
    /\ Len(handlers) < MaxRelayEvents
    /\ handlers' = Append(handlers, NewHandler(t, calculateScrollMetrics(RInt(y), range[t])))
    /\ UNCHANGED <<tabs, range, store, inbox, stateVars, pageVars, popupVars, ghostVars>>

RouterInit ==
    /\ Quiescent
    /\ SettingsLoaded(StoreValues)
    /\ tabs \in [Tabs -> UNION {TabInfos(t) : t \in Tabs}]
    /\ \A t \in Tabs : tabs[t] \in TabInfos(t)
    /\ range = [t \in Tabs |-> 2]

RouterNext ==
    \/ \E t \in Tabs : ScrollEventArrives(t, 1)
    \/ \E h \in DOMAIN handlers, failed \in BOOLEAN : RouterGetSettings(h, failed)
    \/ \E h \in DOMAIN handlers : RouterTabsQueried(h)
    \/ \E h \in DOMAIN handlers : RouterSendSettled(h)
    \/ \E t \in Tabs : HandleSyncScrollMessage(t)

RouterSpec == RouterInit /\ [][RouterNext]_vars

\* The scroll relay with the scheduling the browser guarantees: a pending scroll
\* notification is dispatched, a requested animation frame and a set timeout
\* run, a delivered message is handled and every await of the background
\* settles.  The user is under no obligation to scroll.
Fairness ==
    /\ \A t \in Tabs : WF_vars(OnNativeScroll(t))
    /\ \A t \in Tabs : WF_vars(HandleUserScroll(t))
    /\ \A t \in Tabs : WF_vars(HandleSyncScrollMessage(t))
    /\ \A t \in Tabs : WF_vars(SyncTimeout(t))
    /\ \A h \in 1..MaxEvents : WF_vars(h \in DOMAIN handlers /\ RouterGetSettings(h, FALSE))
    /\ \A h \in 1..MaxEvents : WF_vars(h \in DOMAIN handlers /\ RouterTabsQueried(h))
    /\ \A h \in 1..MaxEvents : WF_vars(h \in DOMAIN handlers /\ RouterSendSettled(h))

FairSpec == Init /\ [][Next]_vars /\ Fairness

\* The content scripts of the tabs in `fresh` have just been injected (the page
\* was opened or reloaded): ScrollState is as written in the source (lines 5-11)
\* and the read of loadSettings is on its way.  The other tabs have loaded the
\* saved settings.
Started(saved, fresh) ==
    /\ store \in saved
    /\ enableSync = [t \in Tabs |->
                       IF t \in fresh THEN TRUE ELSE LoadedEnableSync(store.enableSync)]
    /\ syncMode = [t \in Tabs |->
                     IF t \in fresh THEN "percentage" ELSE LoadedSyncMode(store.syncMode)]
    /\ settingsLoad = [t \in Tabs |->
                         [st |-> IF t \in fresh THEN "pending" ELSE "done",
                          enableSync |-> "unset", syncMode |-> "unset"]]

\* Startup: the page of tab 2 has just been reloaded and loads the settings,
\* while the background relays SCROLL_EVENTs of long-scrolled pages with the
\* settings it reads (or fails to read) at each event.
FreshTabs == {2}

StartupInit ==
    /\ Quiescent
    /\ Started(SavedSettings, FreshTabs)
    /\ tabs = [t \in Tabs |->
                 [windowId |-> 1, splitViewId |-> Num(IF t <= 2 THEN 1 ELSE 2),
                  groupId |-> Num(1), index |-> Num(t - 1)]]
    /\ range = [t \in Tabs |-> PageRange(t)]

StartupNext ==
    \/ \E t \in Tabs : LoadSettingsRead(t)
    \/ \E t \in Tabs : LoadSettingsCallback(t)
    \/ \E t \in Tabs : HasScroll(range[t]) /\ ScrollEventArrives(t, 1)
    \/ \E h \in DOMAIN handlers, failed \in BOOLEAN : RouterGetSettings(h, failed)
    \/ \E h \in DOMAIN handlers : RouterTabsQueried(h)
    \/ \E h \in DOMAIN handlers : RouterSendSettled(h)
    \/ \E t \in Tabs : HandleSyncScrollMessage(t)
    \/ \E t \in Tabs : SyncTimeout(t)

StartupSpec == StartupInit /\ [][StartupNext]_vars

\* A reload during a settings change: the page of tab 2 has just been reloaded
\* and loads the settings while the popup saves new ones and tells the tabs.
ReloadNext ==
    \/ \E t \in Tabs : LoadSettingsRead(t)
    \/ \E t \in Tabs : LoadSettingsCallback(t)
    \/ \E mode \in SyncModes, enable \in {"true", "false"} : PopupSaveSettings(mode, enable)
    \/ \E enable \in {"true", "false"} : PopupUpdateSyncStatus(enable)
    \/ PopupTellNextTab
    \/ \E t \in Tabs : HandleSettingsUpdateMessage(t)

ReloadSpec == StartupInit /\ [][ReloadNext]_vars

\* Commands: as at startup, with SCROLL_EVENTs from any offset of the sender's
\* page, and with the inputs of calculateTargetScrollPosition completed by a
\* SYNC_SCROLL whose payload carries no syncMode, waiting at one of the tabs.
BareCommand ==
    [ev |-> 0, percentage |-> [n |-> 1, d |-> 2], pixel |-> RInt(1), syncMode |-> "unset"]

CommandInboxes ==
    {[t \in Tabs |-> <<>>]}
        \cup {[t \in Tabs |-> IF t = u THEN <<BareCommand>> ELSE <<>>] : u \in Tabs}

CommandInit ==
    /\ QuiescentTabs
    /\ inbox \in CommandInboxes
    /\ Started(SavedSettings, FreshTabs)
    /\ tabs = [t \in Tabs |->
                 [windowId |-> 1, splitViewId |-> Num(IF t <= 2 THEN 1 ELSE 2),
                  groupId |-> Num(1), index |-> Num(t - 1)]]
    /\ range = [t \in Tabs |-> PageRange(t)]

CommandNext ==
    \/ \E t \in Tabs : LoadSettingsRead(t)
    \/ \E t \in Tabs : LoadSettingsCallback(t)
    \/ \E t \in Tabs, y \in ScrollOffsets :
          HasScroll(range[t]) /\ y <= range[t] /\ ScrollEventArrives(t, y)
    \/ \E h \in DOMAIN handlers, failed \in BOOLEAN : RouterGetSettings(h, failed)
    \/ \E h \in DOMAIN handlers : RouterTabsQueried(h)
    \/ \E h \in DOMAIN handlers : RouterSendSettled(h)
    \/ \E t \in Tabs : HandleSyncScrollMessage(t)
    \/ \E t \in Tabs : SyncTimeout(t)

CommandSpec == CommandInit /\ [][CommandNext]_vars

\* The relay seen from the receiving pages: SCROLL_EVENTs from any offset of the
\* senders' pages are relayed and applied, and the timeouts run out.  With the
\* scheduling the browser guarantees: a delivered message is handled, a set
\* timeout runs and every await of the background settles.
QuiescenceNext ==
    \/ \E t \in Tabs, y \in ScrollOffsets :
          HasScroll(range[t]) /\ y <= range[t] /\ ScrollEventArrives(t, y)
    \/ \E h \in DOMAIN handlers : RouterGetSettings(h, FALSE)
    \/ \E h \in DOMAIN handlers : RouterTabsQueried(h)
    \/ \E h \in DOMAIN handlers : RouterSendSettled(h)
    \/ \E t \in Tabs : HandleSyncScrollMessage(t)
    \/ \E t \in Tabs : SyncTimeout(t)

QuiescenceFairness ==
    /\ \A t \in Tabs : WF_vars(HandleSyncScrollMessage(t))
    /\ \A t \in Tabs : WF_vars(SyncTimeout(t))
    /\ \A h \in 1..MaxRelayEvents :
          WF_vars(h \in DOMAIN handlers /\ RouterGetSettings(h, FALSE))
    /\ \A h \in 1..MaxRelayEvents : WF_vars(h \in DOMAIN handlers /\ RouterTabsQueried(h))
    /\ \A h \in 1..MaxRelayEvents : WF_vars(h \in DOMAIN handlers /\ RouterSendSettled(h))

QuiescenceFairSpec == Init /\ [][QuiescenceNext]_vars /\ QuiescenceFairness

\* Settings changes: every content script has loaded the saved settings; the
\* popup saves new ones and tells the tabs, while the background relays
\* SCROLL_EVENTs with the settings it reads (or fails to read) at each event.
SettingsNext ==
    \/ \E mode \in SyncModes, enable \in {"true", "false"} : PopupSaveSettings(mode, enable)
    \/ \E enable \in {"true", "false"} : PopupUpdateSyncStatus(enable)
    \/ PopupTellNextTab
    \/ \E t \in Tabs : HandleSettingsUpdateMessage(t)
    \/ \E t \in Tabs : HasScroll(range[t]) /\ ScrollEventArrives(t, 1)
    \/ \E h \in DOMAIN handlers, failed \in BOOLEAN : RouterGetSettings(h, failed)
    \/ \E h \in DOMAIN handlers : RouterTabsQueried(h)
    \/ \E h \in DOMAIN handlers : RouterSendSettled(h)
    \/ \E t \in Tabs : HandleSyncScrollMessage(t)
    \/ \E t \in Tabs : SyncTimeout(t)

SettingsSpec == Init /\ [][SettingsNext]_vars

\* The settings broadcast among scrolling pages: the popup saves settings and
\* tells the tabs while pages get scroll notifications and schedule their
\* frame callbacks (the horizon ends before the next frame).
BroadcastNext ==
    \/ \E mode \in SyncModes, enable \in {"true", "false"} : PopupSaveSettings(mode, enable)
    \/ \E enable \in {"true", "false"} : PopupUpdateSyncStatus(enable)
    \/ PopupTellNextTab
    \/ \E t \in Tabs : HandleSettingsUpdateMessage(t)
    \/ \E t \in Tabs : ScrollNotification(t)
    \/ \E t \in Tabs : OnNativeScroll(t)

BroadcastSpec == Init /\ [][BroadcastNext]_vars

\* The content scripts alone: pages are scrolled, also sideways and also pages
\* with nothing to scroll vertically, and a send may throw at the call.  The
\* SCROLL_EVENTs handed over wait at the background.
ObserverNext ==
    \/ \E t \in Tabs, y \in ScrollOffsets : UserScroll(t, y)
    \/ \E t \in Tabs : ScrollNotification(t)
    \/ \E t \in Tabs : OnNativeScroll(t)
    \/ \E t \in Tabs : HandleUserScroll(t)
    \/ \E t \in Tabs : HandleUserScrollThrows(t)

ObserverSpec == Init /\ [][ObserverNext]_vars

\* ------------------------------------------------------------------ claims
\* The tabs a relay has called chrome.tabs.sendMessage for, settled or pending.
Recipients(h) ==
    {handlers[h].log[i].to : i \in DOMAIN handlers[h].log}
        \cup (IF handlers[h].pc = "send" THEN {Head(handlers[h].rest)} ELSE {})

SenderOf(h) == tabs[handlers[h].sender]

\* The other tabs of the sender's window.
Candidates(h) ==
    {t \in Tabs \ {handlers[h].sender} : tabs[t].windowId = SenderOf(h).windowId}

\* A tab with no split-view id, no tab-group id and no position index.
Ungrouped(tab) ==
    tab.splitViewId = Undefined /\ tab.groupId = Undefined /\ tab.index = Undefined

\* C1: handleUserScroll hands no SCROLL_EVENT to the outbound channel while
\* isSyncing is true: every run of it that sent found isSyncing false.
C1_NoEmissionWhileSyncing ==
    \A t \in Tabs : lastTick[t].outcome = "sent" => ~lastTick[t].wasSyncing

\* C1 witness: a frame callback scheduled by a sync-driven scroll ran while
\* isSyncing was true, on a tab with sync enabled, and sent nothing.
C1_Witness ==
    \E t \in Tabs :
        /\ lastTick[t].outcome = "suppressed"
        /\ lastTick[t].wasSyncing
        /\ enableSync[t]
        /\ "sync" \in lastTick[t].cause

\* C2: a scroll notification caused by the programmatic jump of a sync command
\* never leads the receiving tab to emit: every SCROLL_EVENT sent has a user
\* scroll among the notifications behind its frame callback.
C2_NoFeedbackEmission ==
    \A t \in Tabs : lastTick[t].outcome = "sent" => "user" \in lastTick[t].cause

\* C7: every user scroll on a tab with sync enabled is eventually reflected in a
\* SCROLL_EVENT sent by that tab.
C7_UserScrollEventuallyEmitted ==
    \A t \in Tabs : (userDirty[t] /\ enableSync[t]) ~> ~userDirty[t]

\* C8: while the quiescence delay of any applied sync command is still running,
\* isSyncing is true (an earlier command's timer does not clear it).
C8_WindowExtended ==
    \A t \in Tabs : syncTimers[t] > 0 => isSyncing[t]

\* C3: a finished relay of a sender that has some identifier has called
\* sendMessage for every other tab of the sender's window whose resolved group
\* key (getSplitViewId) equals the sender's resolved key, whichever identifier
\* the keys come from.
C3_RelayToEverySameKeyTab ==
    \A h \in DOMAIN handlers :
        (handlers[h].pc = "done" /\ ~Ungrouped(SenderOf(h))) =>
            \A t \in Candidates(h) :
                getSplitViewId(tabs[t]) = getSplitViewId(SenderOf(h)) => t \in Recipients(h)

\* C4: every tab a relay sends to resolves to the sender's key; none has a
\* different defined key, and a grouped tab and an ungrouped one never relay
\* to each other.
C4_NoRelayAcrossGroups ==
    \A h \in DOMAIN handlers :
        \A t \in Recipients(h) :
            /\ getSplitViewId(tabs[t]) = getSplitViewId(SenderOf(h))
            /\ Ungrouped(tabs[t]) <=> Ungrouped(SenderOf(h))

\* C4 witness: a relay sent to a sibling and passed over a tab of the same
\* window with a different defined key and an ungrouped tab.
C4_Witness ==
    \E h \in DOMAIN handlers :
        /\ handlers[h].pc = "done"
        /\ \E i \in DOMAIN handlers[h].log : handlers[h].log[i].ok
        /\ \E t \in Candidates(h) \ Recipients(h) :
              tabs[t].splitViewId \notin {Undefined, SenderOf(h).splitViewId}
                \/ Ungrouped(tabs[t])

\* C5: a sender with no identifier at all resolves to no key (undefined) and its
\* relay reaches every other ungrouped tab of its window.
C5_UngroupedBroadcast ==
    \A h \in DOMAIN handlers :
        (handlers[h].pc = "done" /\ Ungrouped(SenderOf(h))) =>
            /\ handlers[h].senderSplitViewId = Undefined
            /\ \A t \in Candidates(h) : Ungrouped(tabs[t]) => t \in Recipients(h)

\* C6: in a finished relay pass in which a delivery failed, every other tab of
\* the sender's window with the sender's key has had exactly one sendMessage
\* (none is skipped, none is retried), and the pass ended normally.
C6_PartialFailureIsolation ==
    \A h \in DOMAIN handlers :
        (handlers[h].pc \in {"done", "failed"}
            /\ \E i \in DOMAIN handlers[h].log : ~handlers[h].log[i].ok) =>
            /\ handlers[h].pc = "done"
            /\ \A t \in Candidates(h) :
                  getSplitViewId(tabs[t]) = handlers[h].senderSplitViewId =>
                      Cardinality({i \in DOMAIN handlers[h].log : handlers[h].log[i].to = t}) = 1

\* C6 witness: a finished pass whose delivery to one sibling failed and whose
\* delivery to a later sibling succeeded.
C6_Witness ==
    \E h \in DOMAIN handlers :
        /\ handlers[h].pc = "done"
        /\ \E i, j \in DOMAIN handlers[h].log :
              i < j /\ ~handlers[h].log[i].ok /\ handlers[h].log[j].ok

\* C9: when the enableSync the background loaded for an event is false, the
\* handler returns at once: it sends to no tab and nothing of it is in flight.
C9_DisabledDropsEvent ==
    \A h \in DOMAIN handlers :
        (handlers[h].pc # "getSettings" /\ ~handlers[h].settings.enableSync) =>
            /\ handlers[h].pc = "dropped"
            /\ Recipients(h) = {}
            /\ \A t \in Tabs : \A i \in DOMAIN inbox[t] : inbox[t][i].ev # h

\* C9 witness: an event was dropped although a tab of the sender's split view
\* was there to relay to.
C9_Witness ==
    \E h \in DOMAIN handlers :
        /\ handlers[h].pc = "dropped"
        /\ ~handlers[h].settings.enableSync
        /\ \E t \in Candidates(h) :
              tabs[t].splitViewId # Undefined /\ tabs[t].splitViewId = SenderOf(h).splitViewId

\* C10: every tab a relay sends to is in the sender's window and is not the
\* sender, and so is every tab holding a SYNC_SCROLL of that relay.
C10_SameWindowNotSender ==
    \A h \in DOMAIN handlers :
        /\ Recipients(h) \subseteq Candidates(h)
        /\ \A t \in Tabs : \A i \in DOMAIN inbox[t] :
              inbox[t][i].ev = h => t \in Candidates(h)

\* C10 witness: a relay delivered to a sibling while a tab of another window
\* carries the same split-view id as the sender.
C10_Witness ==
    \E h \in DOMAIN handlers :
        /\ \E i \in DOMAIN handlers[h].log : handlers[h].log[i].ok
        /\ \E t \in Tabs :
              /\ tabs[t].windowId # SenderOf(h).windowId
              /\ tabs[t].splitViewId = handlers[h].senderSplitViewId

\* The SCROLL_EVENT behind the last SYNC_SCROLL tab t handled: the sender's
\* offset and range, and the mode the background put into the command.
SyncSource(t) ==
    LET hd == handlers[lastSync[t].ev]
    IN  [y |-> hd.payload.pixel, range |-> range[hd.sender], mode |-> hd.settings.syncMode]

\* C11: in percentage mode a receiver with range R2 is told to jump to
\* (y1 / R1) * R2, where y1 and R1 > 0 are the sender's offset and range.
C11_PercentageUsesReceiverRange ==
    \A t \in Tabs :
        (lastSync[t].st = "applied" /\ SyncSource(t).mode = "percentage"
            /\ SyncSource(t).range > 0) =>
            lastSync[t].target =
                RMul(RDiv(SyncSource(t).y, RInt(SyncSource(t).range)), RInt(range[t]))

\* C11 witness: a percentage command applied on a page whose range differs from
\* the sender's, with a target that is not the sender's offset.
C11_Witness ==
    \E t \in Tabs :
        /\ lastSync[t].st = "applied"
        /\ SyncSource(t).mode = "percentage"
        /\ SyncSource(t).range # range[t]
        /\ lastSync[t].target # SyncSource(t).y
        /\ lastSync[t].target # RInt(0)

\* C12: in pixel mode the target handed to window.scrollTo is the sender's
\* pixel offset itself, whatever the receiver's range.
C12_PixelUnmodified ==
    \A t \in Tabs :
        (lastSync[t].st = "applied" /\ SyncSource(t).mode = "pixel") =>
            lastSync[t].target = SyncSource(t).y

\* C12 witness: a pixel command whose target lies beyond the receiver's range
\* (the page itself stops at its limit).
C12_Witness ==
    \E t \in Tabs :
        /\ lastSync[t].st = "applied"
        /\ SyncSource(t).mode = "pixel"
        /\ RLess(RInt(range[t]), lastSync[t].target)
        /\ scrollY[t] = RInt(range[t])

\* C13: a tab whose page has range <= 0 never hands over a SCROLL_EVENT,
\* whatever notifications it gets; its frame callback ends with the scheduled
\* flag cleared, so that a later notification schedules again.
C13_NonScrollableNeverEmits ==
    \A t \in Tabs :
        ~(range[t] > 0) =>
            /\ lastTick[t].outcome \notin {"sent", "threw"}
            /\ \A h \in DOMAIN handlers : handlers[h].sender # t
            /\ frameCallbacks[t] = 0 => ~isScrollScheduled[t]

\* C13 witness: on a page without range, with sync enabled, a frame callback
\* ended without sending and a later notification has scheduled the next one.
C13_Witness ==
    \E t \in Tabs :
        /\ ~(range[t] > 0)
        /\ enableSync[t]
        /\ lastTick[t].outcome = "noscroll"
        /\ isScrollScheduled[t]
        /\ frameCallbacks[t] = 1

\* C14: the SCROLL_EVENT a tab hands over carries pixel = y and percentage = y/R
\* (percentage * R = y) for the offset y and the range R > 0 of its page at that
\* moment, and the percentage lies in [0, 1].
C14_EmittedMetrics ==
    [][Len(handlers') > Len(handlers) =>
        LET hd == handlers'[Len(handlers')]
            y == scrollY[hd.sender]
            R == range[hd.sender]
        IN  /\ R > 0
            /\ hd.payload.pixel = y
            /\ RMul(hd.payload.percentage, RInt(R)) = y
            /\ ~RLess(hd.payload.percentage, RInt(0))
            /\ ~RLess(RInt(1), hd.payload.percentage)]_vars

\* C14 witness: a SCROLL_EVENT sent from the middle of a page of range 2.
C14_Witness ==
    \E h \in DOMAIN handlers :
        /\ range[handlers[h].sender] = 2
        /\ handlers[h].payload.pixel = RInt(1)
        /\ handlers[h].payload.percentage = [n |-> 1, d |-> 2]

C16_DisabledIgnoresSyncCommand ==
    [][\A t \in Tabs :
        (inbox[t] # <<>> /\ inbox'[t] = Tail(inbox[t]) /\ ~enableSync[t]) =>
            /\ scrollY'[t] = scrollY[t]
            /\ scrollNotif'[t] = scrollNotif[t]
            /\ isSyncing'[t] = isSyncing[t]
            /\ syncTimers'[t] = syncTimers[t]]_vars

\* C16 witness: a tab with sync off has let pass a command that would have moved
\* its page; it is not syncing and no timeout is pending.
C16_Witness ==
    \E t \in Tabs :
        /\ lastSync[t].st = "ignored"
        /\ ~enableSync[t]
        /\ handlers[lastSync[t].ev].payload.pixel # scrollY[t]
        /\ ~isSyncing[t]
        /\ syncTimers[t] = 0

\* C17: a tab has at most one frame callback pending, and it has one only
\* while isScrollScheduled is true, however many notifications arrive.
C17_OnePendingEmission ==
    \A t \in Tabs :
        /\ frameCallbacks[t] <= 1
        /\ frameCallbacks[t] = 1 <=> isScrollScheduled[t]

\* C17 witness: a notification found the callback already scheduled and
\* scheduled nothing; the one callback is still pending.
C17_Witness ==
    \E t \in Tabs :
        /\ coalesced[t]
        /\ isScrollScheduled[t]
        /\ frameCallbacks[t] = 1
        /\ scrollNotif[t] = {}

\* C18: a relay whose settings were obtained after a settings change was
\* written and told to the tabs uses the changed settings: its enableSync and
\* its syncMode are the ones last saved.
C18_RouterUsesBroadcastSettings ==
    \A h \in DOMAIN handlers :
        (handlers[h].pc # "getSettings" /\ handlers[h].afterBroadcast
            /\ handlers[h].writesSeen = nSettingsWrites) =>
            /\ handlers[h].settings.enableSync = (store.enableSync = "true")
            /\ store.syncMode # "unset" => handlers[h].settings.syncMode = store.syncMode

\* C19: a failed settings read ends in the defaults and stops nothing: a relay
\* whose read failed goes on with enableSync true and syncMode percentage, and
\* a content script whose load failed has enableSync true and syncMode
\* percentage.
C19_LoadFailureGivesDefaults ==
    /\ \A h \in DOMAIN handlers :
          handlers[h].readFailed =>
              /\ handlers[h].settings = [enableSync |-> TRUE, syncMode |-> "percentage"]
              /\ handlers[h].pc \in {"query", "send", "done", "failed"}
    /\ \A t \in Tabs :
          lastSettings[t].st = "loadFailed" =>
              enableSync[t] /\ syncMode[t] = "percentage"

\* C19 witness: pixel mode is saved; a content script whose load failed has
\* applied, by percentage, a command of a relay whose read failed too and which
\* ran to its end.
C19_Witness ==
    \E t \in Tabs :
        /\ store.syncMode = "pixel"
        /\ lastSettings[t].st = "loadFailed"
        /\ syncMode[t] = "percentage"
        /\ lastSync[t].st = "applied"
        /\ handlers[lastSync[t].ev].readFailed
        /\ handlers[lastSync[t].ev].pc = "done"

\* C20: whichever way handleUserScroll is left (suppressed, page without
\* scroll, sent, or an exception of the send), isScrollScheduled is false
\* afterwards: it is true only while a frame callback is pending.
C20_FlagClearedOnEveryExit ==
    \A t \in Tabs : frameCallbacks[t] = 0 => ~isScrollScheduled[t]

C22_SyncingEventuallyEnds ==
    \A t \in Tabs : isSyncing[t] ~> ~isSyncing[t]

\* C22 witness: a tab has applied a command that did not move its page (no
\* notification, no frame callback ever), its timeouts have fired and it is
\* not syncing.
C22_Witness ==
    \E t \in Tabs :
        /\ lastSync[t].st = "applied"
        /\ lastTick[t].outcome = "none"
        /\ scrollNotif[t] = {}
        /\ frameCallbacks[t] = 0
        /\ scrollY[t] = RInt(0)
        /\ syncTimers[t] = 0
        /\ ~isSyncing[t]

\* C23: the target of an applied command follows the syncMode in the command
\* when there is one, whatever the tab's own syncMode, and the tab's own only
\* when there is none; every command the background forwards carries the
\* syncMode the background obtained for that event, the saved one when the
\* read succeeded and one is saved.
C23_CommandModeFirst ==
    /\ \A t \in Tabs :
          lastSync[t].st = "applied" =>
              LET m == lastSync[t].msg
                  mode == IF m.syncMode \in SyncModes THEN m.syncMode ELSE lastSync[t].local
              IN  lastSync[t].target =
                      IF mode = "percentage" THEN RMul(m.percentage, RInt(range[t]))
                      ELSE m.pixel
    /\ \A t \in Tabs : \A i \in DOMAIN inbox[t] :
          inbox[t][i].ev # 0 =>
              /\ inbox[t][i].syncMode \in SyncModes
              /\ inbox[t][i].syncMode = handlers[inbox[t][i].ev].settings.syncMode
    /\ \A h \in DOMAIN handlers :
          (handlers[h].pc # "getSettings" /\ ~handlers[h].readFailed
              /\ store.syncMode # "unset") =>
              handlers[h].settings.syncMode = store.syncMode

\* C23 witness: a tab in pixel mode has applied a percentage command by
\* percentage, and a tab in pixel mode has applied a command without syncMode
\* by pixel.
C23_Witness ==
    /\ \E t \in Tabs :
          /\ lastSync[t].st = "applied"
          /\ lastSync[t].msg.syncMode = "percentage"
          /\ lastSync[t].local = "pixel"
          /\ lastSync[t].target # lastSync[t].msg.pixel
    /\ \E u \in Tabs :
          /\ lastSync[u].st = "applied"
          /\ lastSync[u].msg.syncMode = "unset"
          /\ lastSync[u].local = "pixel"
          /\ lastSync[u].target = lastSync[u].msg.pixel
          /\ lastSync[u].target # RMul(lastSync[u].msg.percentage, RInt(range[u]))

\* The tabs relayScrollEventToTabs forwards to: the other tabs of the sender's
\* window that pass its test against the sender's key.
Siblings(h) ==
    {t \in Candidates(h) :
        isInSameSplitView(handlers[h].senderSplitViewId, tabs[t].splitViewId)}

\* C24: the forwards of a relay pass do not wait for each other: while the
\* send to one sibling is pending, the send to every other sibling has been
\* issued too.
C24_ForwardsIndependent ==
    \A h \in DOMAIN handlers :
        handlers[h].pc = "send" => Siblings(h) \subseteq Recipients(h)

\* The relay of event h has delivered its SYNC_SCROLL to tab t.
DeliveredTo(h, t) ==
    \E i \in DOMAIN handlers[h].log : handlers[h].log[i].to = t /\ handlers[h].log[i].ok

\* C25: when a tab has sent e1 and later e2, no other event was sent and a
\* sibling has handled the commands of both, the target the sibling was moved
\* to last is the one e2 gives.
C25_LatestPositionWins ==
    \A t \in Tabs : \A h1, h2 \in DOMAIN handlers :
        (/\ h1 < h2
         /\ handlers[h1].sender = handlers[h2].sender
         /\ handlers[h1].pc = "done" /\ handlers[h2].pc = "done"
         /\ DeliveredTo(h1, t) /\ DeliveredTo(h2, t)
         /\ \A h3 \in DOMAIN handlers : h3 \in {h1, h2}
         /\ inbox[t] = <<>>
         /\ lastSync[t].st = "applied") =>
            lastSync[t].target =
                IF handlers[h2].settings.syncMode = "percentage"
                THEN RMul(handlers[h2].payload.percentage, RInt(range[t]))
                ELSE handlers[h2].payload.pixel

\* C26: once a tab has applied a SETTINGS_UPDATED, the completion or failure of
\* the settings load it started at startup leaves enableSync and syncMode as
\* they are.
C26_LoadKeepsBroadcastValues ==
    [][\A t \in Tabs :
          (/\ lastSettings[t].st = "updated"
           /\ settingsLoad[t].st \in {"read", "failed"}
           /\ settingsLoad'[t].st = "done") =>
              /\ enableSync'[t] = enableSync[t]
              /\ syncMode'[t] = syncMode[t]]_vars

\* C27: the sibling relation the background applies is symmetric: a finished
\* relay of a SCROLL_EVENT of tab A has forwarded it to exactly A's relay
\* targets, and it has forwarded it to a tab B of A's window if and only if a
\* SCROLL_EVENT of B is forwarded to A.
C27_SiblingRelationSymmetric ==
    \A h \in DOMAIN handlers :
        handlers[h].pc = "done" =>
            /\ Recipients(h) = RelayTargets(handlers[h].sender, tabs)
            /\ \A b \in Candidates(h) :
                  b \in Recipients(h) <=> handlers[h].sender \in RelayTargets(b, tabs)

\* C27 witness: a finished relay forwarded the event to a tab whose own events
\* go to the sender, and passed over a tab of the window that reports no
\* splitViewId and whose own events do not go to the sender.
C27_Witness ==
    \E h \in DOMAIN handlers : \E b, c \in Candidates(h) :
        /\ handlers[h].pc = "done"
        /\ b \in Recipients(h)
        /\ handlers[h].sender \in RelayTargets(b, tabs)
        /\ c \notin Recipients(h)
        /\ tabs[c].splitViewId = Undefined
        /\ handlers[h].sender \notin RelayTargets(c, tabs)

====
